---------------------------- MODULE Spec2Model ----------------------------
(* Model of the oogoo listing scrapers: the relative-date normalizer      *)
(* get_publish_date_arabic, the card rules, the detail resolver            *)
(* scrape_more_details and the listing walker get_car_details, in their    *)
(* OogooUsed and OogooCertified variants (src/oogoo_used.py,               *)
(* src/oogoo_certified.py), and the coordinator ScraperMain (src/main.py). *)
EXTENDS Integers, Sequences, FiniteSets, TLC

VARIABLES
    variant,        \* which class the object is: "used" | "certified"
    relative_date,  \* argument of get_publish_date_arabic
    current_time,   \* datetime.now(), in whole hours since datetime.min
    normPc,         \* "call" before get_publish_date_arabic ran, "done" after
    normResult,     \* what the call produced
    dUrl,           \* argument url of scrape_more_details
    dEnv,           \* what the driver and the detail page will answer
    dPage,          \* the page handle passed to scrape_more_details
    dPc,            \* "call" before scrape_more_details ran, "done" after
    dResult,        \* the detail record it returned
    retries,        \* self.retries
    wpc,            \* where get_car_details is
    attempt,        \* the loop variable of "for attempt in range(self.retries)"
    pending,        \* how the try statement leaves its finally clause
    page,           \* the walker's current page handle
    car_cards,      \* the card handles of the current attempt, in DOM order
    idx,            \* position of the next card of car_cards
    cars,           \* the list of records
    wresult,        \* the list get_car_details returned
    session,        \* the browser, the context and the number of open pages
    newPageCalls,   \* how many times context.new_page() was called
    attemptLog,     \* the outcome of each attempt so far: "failed" | "ok"
    sessionFault,   \* a launch, hand-over or close call of the driver raised
    cardDom,        \* the card element the four card rules are applied to
    cardFaults,     \* the card rules whose driver calls raise
    cardPc,         \* "call" before the card rules ran, "done" after
    cardResult,     \* what the four card rules returned
    credential,     \* the environment variable OGO_GCLOUD_KEY_JSON
    mpc,            \* where the main module is
    task,           \* scrape_used and scrape_certified: position and page number
    permits,        \* the value of self.semaphore
    walkLog,        \* how the walk of each page of each category went
    pageCars,       \* the list a walk will return, where it is fixed beforehand
    data,           \* self.data_used and self.data_certified
    files,          \* the files save_to_excel returned
    fatalAt,        \* where an exception left the program
    showPc,         \* where DetailsScraping.get_car_details is
    showCards,      \* the showroom cards of the listing, in DOM order
    showIdx,        \* position of the next showroom card
    showrooms_data, \* self.showrooms_data
    showLog         \* how the pass over each showroom card ended

normVars == <<variant, relative_date, current_time, normPc, normResult>>
detailVars == <<dUrl, dEnv, dPage, dPc, dResult>>
walkVars == <<retries, wpc, attempt, pending, page, car_cards, idx, cars, wresult,
              session, newPageCalls, attemptLog, sessionFault>>

cardVars == <<cardDom, cardFaults, cardPc, cardResult>>
mainVars == <<credential, mpc, task, permits, walkLog, pageCars, data, files, fatalAt>>

showVars == <<showPc, showCards, showIdx, showrooms_data, showLog>>

vars == <<normVars, detailVars, walkVars, cardVars, mainVars, showVars>>

Variants == {"used", "certified"}

(***************************************************************************)
(* Text.  A phrase is a sequence of lexical units of the site's Arabic     *)
(* relative-time phrases; every regular expression of the normalizer is a  *)
(* concatenation of these units and of \d+.                                *)
(***************************************************************************)
PUB   == "nushira mundhu "   \* the literal prefix of every pattern, with its trailing space
SP    == " "
SAA   == "sa'a"              \* hour
YAWM  == "yawm"              \* day
AYN   == "ayn"               \* the dual ending: yawm + ayn = "two days"
AYYAM == "ayyam"             \* days (plural)

DigitStr == <<"0", "1", "2", "3", "4", "5", "6", "7", "8", "9">>
AllDigits == {DigitStr[i] : i \in 1..10}

\* the digits the input phrases are written with
DigitChars == {"2", "9"}

Alphabet == {PUB, SP, SAA, YAWM, AYN, AYYAM} \cup DigitChars

MaxPhraseLen == 5

Phrases == UNION {[1..n -> Alphabet] : n \in 0..MaxPhraseLen}

\* int() of one digit character
DigitVal(c) == (CHOOSE i \in 1..10 : DigitStr[i] = c) - 1

RECURSIVE IntOf(_)
\* int(match.group(1)) of a non-empty digit string
IntOf(ds) ==
    IF Len(ds) = 0 THEN 0
    ELSE 10 * IntOf(SubSeq(ds, 1, Len(ds) - 1)) + DigitVal(ds[Len(ds)])

RECURSIVE DigitRun(_, _)
\* length of the longest run of digits of s that starts at position i
DigitRun(s, i) ==
    IF i <= Len(s) /\ s[i] \in AllDigits THEN 1 + DigitRun(s, i + 1) ELSE 0

\* the literal lit occurs in s at position i
LitAt(s, i, lit) ==
    /\ i + Len(lit) - 1 <= Len(s)
    /\ \A k \in 1..Len(lit) : s[i + k - 1] = lit[k]

\* re.search(literal pattern, s): the pattern occurs somewhere in s
SearchLit(lit, s) == \E i \in 1..Len(s) : LitAt(s, i, lit)

\* the pattern  PUB (\d+) SP unit  matches s at position i
NumAt(s, i, unit) ==
    LET n == DigitRun(s, i + 1) IN
    /\ i <= Len(s) /\ s[i] = PUB
    /\ n >= 1
    /\ LitAt(s, i + 1 + n, <<SP, unit>>)

\* re.search(r'PUB (\d+) SP unit', s): the leftmost match and its group(1)
SearchNum(unit, s) ==
    IF \E i \in 1..Len(s) : NumAt(s, i, unit)
    THEN LET i == CHOOSE j \in 1..Len(s) :
                    NumAt(s, j, unit) /\ \A k \in 1..(j - 1) : ~NumAt(s, k, unit)
         IN  [found |-> TRUE, group1 |-> SubSeq(s, i + 1, i + DigitRun(s, i + 1))]
    ELSE [found |-> FALSE, group1 |-> <<>>]

(***************************************************************************)
(* Time.  A datetime is a number of whole hours since datetime.min (the    *)
(* minutes and seconds of now are carried through every subtraction        *)
(* unchanged and are left out).  Subtracting past datetime.min raises      *)
(* OverflowError.                                                          *)
(***************************************************************************)
\* the clock reading, at least three days after datetime.min
NowHours == 80

Nows == {NowHours}

\* timedelta(days=d, hours=h)
timedelta(d, h) == d * 24 + h

\* strftime("%Y-%m-%d %H:%M:%S"): the date part and the time-of-day part
strftime(t) == [isNone |-> FALSE, date |-> t \div 24, time |-> t % 24]

\* Python's None where a timestamp string is expected
NoneValue == [isNone |-> TRUE, date |-> 0, time |-> 0]

Return(v) == [raised |-> FALSE, value |-> v]
Raise == [raised |-> TRUE, value |-> NoneValue]

\* (current_time - delta).strftime(...), or OverflowError
PublishTime(now, delta) ==
    IF now - delta < 0 THEN Raise ELSE Return(strftime(now - delta))

(***************************************************************************)
(* Arguments of get_publish_date_arabic: None, a str, or another object.   *)
(***************************************************************************)
NoneArg == [kind |-> "None", text |-> <<>>, truthy |-> FALSE]
StrArg(t) == [kind |-> "str", text |-> t, truthy |-> Len(t) > 0]
OtherArg(b) == [kind |-> "other", text |-> <<>>, truthy |-> b]

RelativeDates ==
    {NoneArg} \cup {StrArg(t) : t \in Phrases} \cup {OtherArg(b) : b \in BOOLEAN}

\* the regular expressions declared in get_publish_date_arabic
hour_unit == SAA
day_unit == YAWM
\* a slip: the one-day pattern written with a doubled space
one_day_pattern_spaced == <<PUB, SP, YAWM>>

one_day_pattern == <<PUB, YAWM>>
two_days_pattern == <<PUB, YAWM, AYN>>
three_days_unit == AYYAM

\* "Default to more than 3 days ago"
DefaultPublishTime(now) == PublishTime(now, timedelta(3, 0))

\* a slip: hours_ago passed as days
HoursAgoAsDays(now, group1) == PublishTime(now, timedelta(IntOf(group1), 0))

\* current_time - timedelta(hours=int(match_hour.group(1)))
HoursAgo(now, group1) == PublishTime(now, timedelta(0, IntOf(group1)))

\* current_time - timedelta(days=int(match_three_days.group(1)))
DaysAgo(now, group1) == PublishTime(now, timedelta(IntOf(group1), 0))

\* the rules applied to a str, in the order of the code
MatchRules(t, now) ==
    LET match_hour == SearchNum(hour_unit, t)
        match_three_days == SearchNum(three_days_unit, t)
    IN  IF match_hour.found
          THEN HoursAgo(now, match_hour.group1)
        ELSE IF SearchLit(one_day_pattern, t)
          THEN PublishTime(now, timedelta(1, 0))
        ELSE IF SearchLit(two_days_pattern, t)
          THEN PublishTime(now, timedelta(2, 0))
        ELSE IF match_three_days.found
          THEN DaysAgo(now, match_three_days.group1)
        ELSE DefaultPublishTime(now)

\* a slip: re.search without the "if relative_date" guard
UsedTryUnguarded(rd, now) ==
    IF rd.kind # "str" THEN Raise ELSE MatchRules(rd.text, now)

\* the try block of OogooUsed.get_publish_date_arabic: every re.search is
\* guarded by "if relative_date"; re.search on a non-str raises TypeError
UsedTry(rd, now) ==
    IF ~rd.truthy THEN DefaultPublishTime(now)
    ELSE IF rd.kind # "str" THEN Raise
    ELSE MatchRules(rd.text, now)

\* the try block of OogooCertified.get_publish_date_arabic: "if not
\* relative_date" returns the default first
CertifiedTry(rd, now) ==
    IF ~rd.truthy THEN DefaultPublishTime(now)
    ELSE IF rd.kind # "str" THEN Raise
    ELSE MatchRules(rd.text, now)

\* OogooUsed: "except Exception: return None"
UsedExcept(now) == Return(NoneValue)

\* OogooCertified: "except Exception: return (datetime.now() - 3 days)"
CertifiedExcept(now) == DefaultPublishTime(now)

get_publish_date_arabic(v, rd, now) ==
    LET r == IF v = "used" THEN UsedTry(rd, now) ELSE CertifiedTry(rd, now) IN
    IF ~r.raised THEN r
    ELSE IF v = "used" THEN UsedExcept(now) ELSE CertifiedExcept(now)

\* an exception was raised inside the try block
InternalError(v, rd, now) ==
    IF v = "used" THEN UsedTry(rd, now).raised ELSE CertifiedTry(rd, now).raised

(***************************************************************************)
(* Values.  An optional text is a string, NoneText standing for None; a    *)
(* URL is None or a sequence of segments, so that startswith is a prefix   *)
(* test; a relative date is None or a phrase (NoneArg, StrArg).            *)
(***************************************************************************)
NoneText == "<None>"

ORIGIN == "https://oogoocar.com"

NoneUrl == [isNone |-> TRUE, parts |-> <<>>]
Url(parts) == [isNone |-> FALSE, parts |-> parts]

\* str.startswith
startswith(parts, prefix) ==
    /\ Len(parts) >= Len(prefix)
    /\ SubSeq(parts, 1, Len(prefix)) = prefix

(***************************************************************************)
(* Card-scope rules.  A card is what the listing DOM holds for it; a rule  *)
(* in faulty is one whose driver call raises (its except returns the empty *)
(* result).                                                                *)
(***************************************************************************)
CardRules == {"link", "brand", "price", "title"}

\* scrape_link: the href of the card's anchor, prefixed with the origin
scrape_link(card, faulty) ==
    IF "link" \in faulty THEN NoneUrl
    ELSE IF card.anchor /\ card.href # <<>> THEN Url(<<ORIGIN>> \o card.href)
    ELSE NoneUrl

\* scrape_brand: inner text of the brand element, None when it is absent
scrape_brand(card, faulty) ==
    IF "brand" \in faulty THEN NoneText ELSE card.brand

\* scrape_price: inner text of the price element, None when it is absent
scrape_price(card, faulty) ==
    IF "price" \in faulty THEN NoneText ELSE card.price

\* a slip: the fallback strings also when the container is missing
scrape_title_no_container_case(card, faulty) ==
    IF "title" \in faulty THEN [model |-> NoneText, distance |-> NoneText]
    ELSE [model |-> IF card.title.model # NoneText
                      THEN card.title.model ELSE "Model not found",
          distance |-> IF card.title.distance # NoneText
                         THEN card.title.distance ELSE "Distance not found"]

\* scrape_title: model and distance of the title container
scrape_title(card, faulty) ==
    IF "title" \in faulty THEN [model |-> NoneText, distance |-> NoneText]
    ELSE IF ~card.title.container THEN [model |-> NoneText, distance |-> NoneText]
    ELSE [model |-> IF card.title.model # NoneText
                      THEN card.title.model ELSE "Model not found",
          distance |-> IF card.title.distance # NoneText
                         THEN card.title.distance ELSE "Distance not found"]

(***************************************************************************)
(* Detail-scope rules, on what the detail page's DOM holds.                *)
(***************************************************************************)
DetailRules ==
    {"submitter", "specification", "description", "phone_number", "ad_id",
     "relative_date"}

NO_DESCRIPTION == <<"No Description Found">>

\* Python's None where a description text is expected
NoneDescription == <<NoneText>>

NoSubmitter == [isNone |-> TRUE, submitter |-> NoneText, relative_date |-> NoneArg]

\* the text of the paragraph '.car-ad-posted figcaption p', None without it
FigcaptionP(dom) ==
    IF dom.figcaption /\ dom.date.sel = 1 THEN StrArg(dom.date.text) ELSE NoneArg

\* scrape_submitter: label and paragraph of the figcaption
scrape_submitter(dom, faulty) ==
    IF "submitter" \in faulty \/ ~dom.figcaption THEN NoSubmitter
    ELSE [isNone |-> FALSE, submitter |-> dom.label, relative_date |-> FigcaptionP(dom)]

RECURSIVE SpecMap(_)
\* the dict built from the list items, a later label overwriting an earlier
SpecMap(items) ==
    IF Len(items) = 0 THEN {}
    ELSE LET last == items[Len(items)]
             rest == SpecMap(SubSeq(items, 1, Len(items) - 1))
         IN  IF last.h3 # NoneText /\ last.p # NoneText
               THEN {kv \in rest : kv[1] # last.h3} \cup {<<last.h3, last.p>>}
               ELSE rest

\* scrape_specification
scrape_specification(dom, faulty) ==
    IF "specification" \in faulty THEN {} ELSE SpecMap(dom.spec)

RECURSIVE lstrip(_)
lstrip(t) == IF Len(t) > 0 /\ t[1] = SP THEN lstrip(Tail(t)) ELSE t

RECURSIVE rstrip(_)
rstrip(t) ==
    IF Len(t) > 0 /\ t[Len(t)] = SP THEN rstrip(SubSeq(t, 1, Len(t) - 1)) ELSE t

\* str.strip
strip(t) == rstrip(lstrip(t))

\* a slip: None where the region is missing
scrape_description_or_none(dom, faulty) ==
    IF "description" \in faulty \/ dom.description.state # "visible" THEN NoneDescription
    ELSE IF dom.description.text # <<>> THEN strip(dom.description.text)
    ELSE NO_DESCRIPTION

\* scrape_description: waits for the region to be visible (a timeout raises),
\* then strips its text; an empty text gives the sentinel
scrape_description(dom, faulty) ==
    IF "description" \in faulty \/ dom.description.state # "visible" THEN NO_DESCRIPTION
    ELSE IF dom.description.text # <<>> THEN strip(dom.description.text)
    ELSE NO_DESCRIPTION

\* data.get(key) of the JSON in the whatsapp element's mpt-properties
ContactProperty(dom, value) ==
    IF dom.contact.state = "valid" THEN value ELSE NoneText

\* scrape_phone_number
scrape_phone_number(dom, faulty) ==
    IF "phone_number" \in faulty THEN NoneText
    ELSE ContactProperty(dom, dom.contact.mobile)

\* a slip: one parse of the attribute shared with scrape_phone_number
scrape_id_shared_parse(dom, faulty) ==
    IF "ad_id" \in faulty \/ "phone_number" \in faulty THEN NoneText
    ELSE ContactProperty(dom, dom.contact.AdId)

\* scrape_id
scrape_id(dom, faulty) ==
    IF "ad_id" \in faulty THEN NoneText
    ELSE ContactProperty(dom, dom.contact.AdId)

\* how many selectors scrape_relative_date tries, in order
DateSelectors(v) == IF v = "used" THEN 1 ELSE 5

\* scrape_relative_date: the text of the first selector that has an element
scrape_relative_date(v, dom, faulty) ==
    IF "relative_date" \in faulty THEN NoneArg
    ELSE IF dom.date.sel \in 1..DateSelectors(v) THEN StrArg(dom.date.text)
    ELSE NoneArg

(***************************************************************************)
(* scrape_more_details.  A page handle records where it is, how many       *)
(* navigations it made and how many calls scrape_more_details made on it;  *)
(* env is what the driver and the site answer.                             *)
(***************************************************************************)
BlankPage == [at |-> "blank", gotos |-> 0, detailOps |-> 0]

EmptyDetails ==
    [submitter |-> NoSubmitter, specification |-> {}, description |-> NO_DESCRIPTION,
     phone_number |-> NoneText, ad_id |-> NoneText, relative_date |-> NoneArg,
     date_published |-> NoneValue]

\* a slip: an except clause that returns a dict of plain None values
ExceptDetailsAllNone ==
    [submitter |-> NoSubmitter, specification |-> {}, description |-> NoneDescription,
     phone_number |-> NoneText, ad_id |-> NoneText, relative_date |-> NoneArg,
     date_published |-> NoneValue]

\* the dict returned by the except clause of scrape_more_details
ExceptDetails ==
    [submitter |-> NoSubmitter, specification |-> {}, description |-> NO_DESCRIPTION,
     phone_number |-> NoneText, ad_id |-> NoneText, relative_date |-> NoneArg,
     date_published |-> NoneValue]

\* a slip: the check without startswith
UrlAcceptedNoPrefix(url) == ~url.isNone /\ url.parts # <<>>

\* the negation of "not url or not url.startswith(origin)"
UrlAccepted(url) ==
    /\ ~url.isNone
    /\ url.parts # <<>>
    /\ startswith(url.parts, <<ORIGIN>>)

\* where the page is after page.goto(url), by the outcome of the navigation
AfterGoto(pg, nav) ==
    [at |-> IF nav = "goto_raises_stays" THEN pg.at ELSE "detail",
     gotos |-> pg.gotos + 1,
     detailOps |-> pg.detailOps + 1]

\* the dict returned when the try block ran to its end
DetailRecord(v, dom, faulty, now) ==
    LET rd == scrape_relative_date(v, dom, faulty) IN
    [submitter |-> scrape_submitter(dom, faulty),
     specification |-> scrape_specification(dom, faulty),
     description |-> scrape_description(dom, faulty),
     phone_number |-> scrape_phone_number(dom, faulty),
     ad_id |-> scrape_id(dom, faulty),
     relative_date |-> rd,
     date_published |-> get_publish_date_arabic(v, rd, now).value]

\* scrape_more_details(url, page): the returned dict and the page afterwards
\* path tells which return statement produced the dict
scrape_more_details(v, url, pg, env, now) ==
    IF ~UrlAccepted(url)
      THEN [details |-> EmptyDetails, page |-> pg, path |-> "short_circuit"]
    ELSE IF env.nav \in {"goto_raises_stays", "goto_raises_moved"}
      THEN [details |-> ExceptDetails, page |-> AfterGoto(pg, env.nav),
            path |-> "nav_error"]
    ELSE IF env.nav = "settle_raises"
      THEN [details |-> ExceptDetails,
            page |-> [AfterGoto(pg, env.nav) EXCEPT !.detailOps = @ + 1],
            path |-> "nav_error"]
    ELSE IF get_publish_date_arabic(
                v, scrape_relative_date(v, env.dom, env.faulty), now).raised
      THEN [details |-> ExceptDetails,
            page |-> [AfterGoto(pg, env.nav) EXCEPT !.detailOps = @ + 2 + Cardinality(DetailRules)],
            path |-> "rule_error"]
    ELSE [details |-> DetailRecord(v, env.dom, env.faulty, now),
          page |-> [AfterGoto(pg, env.nav) EXCEPT !.detailOps = @ + 2 + Cardinality(DetailRules)],
          path |-> "resolved"]

(***************************************************************************)
(* The detail pages, driver outcomes and URLs given as inputs.             *)
(***************************************************************************)
\* a detail page with every region present
FullDom ==
    [figcaption |-> TRUE, label |-> "Dealer",
     date |-> [sel |-> 1, text |-> <<PUB, YAWM>>],
     spec |-> <<[h3 |-> "Year", p |-> "2020"], [h3 |-> NoneText, p |-> "x"],
                [h3 |-> "Year", p |-> "2021"]>>,
     description |-> [state |-> "visible", text |-> <<SP, "clean car", SP>>],
     contact |-> [state |-> "valid", mobile |-> "555", AdId |-> "42"]]

\* a detail page with none of the regions
BareDom ==
    [figcaption |-> FALSE, label |-> NoneText,
     date |-> [sel |-> 0, text |-> <<>>],
     spec |-> <<>>,
     description |-> [state |-> "absent", text |-> <<>>],
     contact |-> [state |-> "absent", mobile |-> NoneText, AdId |-> NoneText]]

\* a detail page in another markup: the date under '.ad-date' and too far
\* back to subtract, a blank description, malformed contact JSON
OddDom ==
    [figcaption |-> FALSE, label |-> NoneText,
     date |-> [sel |-> 3, text |-> <<PUB, "9", "9", SP, SAA>>],
     spec |-> <<[h3 |-> "Color", p |-> NoneText]>>,
     description |-> [state |-> "visible", text |-> <<SP>>],
     contact |-> [state |-> "malformed", mobile |-> NoneText, AdId |-> NoneText]]

DetailDoms == {FullDom, BareDom, OddDom}

NavOutcomes == {"ok", "goto_raises_stays", "goto_raises_moved", "settle_raises"}

DetailFaultSets == {{}, DetailRules} \cup {{r} : r \in DetailRules}

DetailEnvs == [nav : NavOutcomes, dom : DetailDoms, faulty : DetailFaultSets]

QuietEnv == [nav |-> "ok", dom |-> BareDom, faulty |-> {}]

\* None, "", a relative path, another site, a detail page of the site, and
\* an address that merely begins with the origin's text
DetailUrls ==
    {NoneUrl, Url(<<>>), Url(<<"/ar/car/1">>),
     Url(<<"https://other.example", "/ar/car/1">>),
     Url(<<ORIGIN, "/ar/car/1">>),
     Url(<<ORIGIN, ".other.example", "/ar/car/1">>)}

ListingPage == [at |-> "listing", gotos |-> 1, detailOps |-> 0]

NoSession == [browser |-> "none", context |-> "none", openPages |-> 0]


(***************************************************************************)
(* The card rules on one card element.                                     *)
(***************************************************************************)
\* the card elements a listing can hold: an anchor with or without an href,
\* a title container with or without its two spans
CardElements ==
    {c \in [id : {1}, anchor : BOOLEAN, href : {<<>>, <<"/ar/car/", "1">>},
            brand : {NoneText, "Toyota"}, price : {NoneText, "5000"},
            title : [container : BOOLEAN, model : {NoneText, "Camry"},
                     distance : {NoneText, "12000 km"}]] :
        /\ ~c.anchor => c.href = <<>>
        /\ ~c.title.container =>
              c.title.model = NoneText /\ c.title.distance = NoneText}

\* the card-level values get_car_details collects for one card
CardFields(card, faulty) ==
    [link |-> scrape_link(card, faulty),
     brand |-> scrape_brand(card, faulty),
     price |-> scrape_price(card, faulty),
     title |-> scrape_title(card, faulty)]

NoCardFields ==
    [link |-> NoneUrl, brand |-> NoneText, price |-> NoneText,
     title |-> [model |-> NoneText, distance |-> NoneText]]

\* the card variables while no card rule is called
CardIdle ==
    /\ cardDom = [id |-> 1, anchor |-> FALSE, href |-> <<>>, brand |-> NoneText,
                  price |-> NoneText,
                  title |-> [container |-> FALSE, model |-> NoneText,
                             distance |-> NoneText]]
    /\ cardFaults = {}
    /\ cardPc = "idle"
    /\ cardResult = NoCardFields

(***************************************************************************)
(* The coordinator's values.                                               *)
(***************************************************************************)
Categories == {"used", "certified"}

\* asyncio.Semaphore(5)
SemaphoreCapacity == 5

\* for page in range(1, 3)
FirstPage == 1
LastPage == 2
Pages == FirstPage..LastPage

\* the coordinator's variables while the main module is not run
MainIdle ==
    /\ credential = "valid"
    /\ mpc = "idle"
    /\ task = [c \in Categories |-> [pc |-> "idle", page |-> FirstPage]]
    /\ permits = SemaphoreCapacity
    /\ walkLog = [c \in Categories |-> [p \in Pages |-> "none"]]
    /\ pageCars = [c \in Categories |-> <<>>]
    /\ data = [c \in Categories |-> <<>>]
    /\ files = {}
    /\ fatalAt = "none"

\* the showroom walker's variables while it is not called
ShowIdle ==
    /\ showPc = "idle"
    /\ showCards = <<>>
    /\ showIdx = 1
    /\ showrooms_data = <<>>
    /\ showLog = <<>>

(***************************************************************************)
(* The normalizer applied to one argument.                                 *)
(***************************************************************************)
NormInit ==
    /\ variant \in Variants
    /\ relative_date \in RelativeDates
    /\ current_time \in Nows
    /\ normPc = "call"
    /\ normResult = Raise
    /\ dUrl = NoneUrl
    /\ dEnv = QuietEnv
    /\ dPage = BlankPage
    /\ dPc = "idle"
    /\ dResult = EmptyDetails
    /\ retries = 0
    /\ wpc = "idle"
    /\ attempt = 0
    /\ pending = "none"
    /\ page = BlankPage
    /\ car_cards = <<>>
    /\ idx = 1
    /\ cars = <<>>
    /\ wresult = <<>>
    /\ session = NoSession
    /\ newPageCalls = 0
    /\ attemptLog = <<>>
    /\ sessionFault = FALSE
    /\ CardIdle
    /\ MainIdle
    /\ ShowIdle

Normalize ==
    /\ normPc = "call"
    /\ normResult' = get_publish_date_arabic(variant, relative_date, current_time)
    /\ normPc' = "done"
    /\ UNCHANGED <<variant, relative_date, current_time, detailVars, walkVars, cardVars,
                   mainVars, showVars>>

NormNext == Normalize

SpecNorm == NormInit /\ [][NormNext]_vars

(***************************************************************************)
(* Properties of the normalizer.                                           *)
(***************************************************************************)
MaxN == 99

RECURSIVE DigitsOf(_)
\* the decimal digits of a natural number
DigitsOf(n) ==
    IF n < 10 THEN <<DigitStr[n + 1]>>
    ELSE DigitsOf(n \div 10) \o <<DigitStr[(n % 10) + 1]>>

\* the phrases "published one day ago", "published two days ago",
\* "published n hours ago"
OneDayPhrase == <<PUB, YAWM>>
TwoDaysPhrase == <<PUB, YAWM, AYN>>
HoursPhrase(n) == <<PUB>> \o DigitsOf(n) \o <<SP, SAA>>

\* the fallback: now - 3 days, formatted
Fallback == Return(strftime(current_time - 72))

\* C5 (as stated): "published two days ago" normalizes to now - 2 days.
C5_TwoDaysAgo ==
    (normPc = "done" /\ relative_date = StrArg(TwoDaysPhrase))
        => normResult = Return(strftime(current_time - 48))

\* C6 (as stated): every "published n hours ago" phrase normalizes to
\* now - n hours.
C6_HoursAgo_AsStated ==
    \A n \in 0..MaxN :
        (normPc = "done" /\ relative_date = StrArg(HoursPhrase(n)))
            => normResult = Return(strftime(current_time - n))

\* C6 (amended): "published n hours ago" normalizes to now - n hours when
\* that datetime is representable (n hours do not reach back past
\* datetime.min); when it is not, the used variant returns None and the
\* certified variant the now - 3 days fallback.
C6_HoursAgo ==
    \A n \in 0..MaxN :
        (normPc = "done" /\ relative_date = StrArg(HoursPhrase(n)))
            => normResult =
                   IF n <= current_time THEN Return(strftime(current_time - n))
                   ELSE IF variant = "used" THEN Return(NoneValue)
                   ELSE Fallback

C6_Witness ==
    \E n \in 10..MaxN :
        /\ n <= current_time
        /\ normPc = "done"
        /\ relative_date = StrArg(HoursPhrase(n))

\* C7: "published one day ago" normalizes to now - 1 day.
C7_OneDayAgo ==
    (normPc = "done" /\ relative_date = StrArg(OneDayPhrase))
        => normResult = Return(strftime(current_time - 24))

C7_Witness == normPc = "done" /\ relative_date = StrArg(OneDayPhrase)

\* no rule of the normalizer matches the text
NoRuleMatches(t) ==
    /\ ~SearchNum(SAA, t).found
    /\ ~SearchLit(<<PUB, YAWM>>, t)
    /\ ~SearchLit(<<PUB, YAWM, AYN>>, t)
    /\ ~SearchNum(AYYAM, t).found

\* C8: None, the empty string and every text no rule matches normalize to
\* exactly now - 3 days, without an error, in both variants.
C8_FallbackOnNoMatch ==
    (/\ normPc = "done"
     /\ \/ relative_date = NoneArg
        \/ relative_date = StrArg(<<>>)
        \/ relative_date.kind = "str" /\ NoRuleMatches(relative_date.text))
        => normResult = Fallback

C8_Witness ==
    /\ normPc = "done"
    /\ variant = "used"
    /\ relative_date = NoneArg

\* the phrases "published n day ago" (singular noun, day_pattern) and
\* "published n days ago" (plural noun, three_days_pattern)
DaySingularPhrase(n) == <<PUB>> \o DigitsOf(n) \o <<SP, YAWM>>
DaysPluralPhrase(n) == <<PUB>> \o DigitsOf(n) \o <<SP, AYYAM>>

\* C25 (as stated): every phrase of either numeric day pattern normalizes to
\* now - n days; stated here only for the n whose now - n days is a
\* representable datetime.
C25_NDaysAgo ==
    \A n \in 0..MaxN :
        (/\ normPc = "done"
         /\ timedelta(n, 0) <= current_time
         /\ relative_date \in {StrArg(DaySingularPhrase(n)), StrArg(DaysPluralPhrase(n))})
            => normResult = Return(strftime(current_time - timedelta(n, 0)))

\* C9 (as stated): an error raised inside the normalizer is mapped to the
\* now - 3 days default; the result is never None.
C9_ErrorsMapToDefault ==
    (normPc = "done" /\ InternalError(variant, relative_date, current_time))
        => normResult = Fallback

(***************************************************************************)
(* scrape_more_details applied to one URL and one page handle.             *)
(***************************************************************************)
DetailInit ==
    /\ variant \in Variants
    /\ relative_date = NoneArg
    /\ current_time \in Nows
    /\ normPc = "idle"
    /\ normResult = Raise
    /\ dUrl \in DetailUrls
    /\ dEnv \in DetailEnvs
    /\ dPage \in {BlankPage, ListingPage}
    /\ dPc = "call"
    /\ dResult = EmptyDetails
    /\ retries = 0
    /\ wpc = "idle"
    /\ attempt = 0
    /\ pending = "none"
    /\ page = BlankPage
    /\ car_cards = <<>>
    /\ idx = 1
    /\ cars = <<>>
    /\ wresult = <<>>
    /\ session = NoSession
    /\ newPageCalls = 0
    /\ attemptLog = <<>>
    /\ sessionFault = FALSE
    /\ CardIdle
    /\ MainIdle
    /\ ShowIdle

ResolveDetail ==
    /\ dPc = "call"
    /\ LET r == scrape_more_details(variant, dUrl, dPage, dEnv, current_time) IN
        /\ dResult' = r.details
        /\ dPage' = r.page
    /\ dPc' = "done"
    /\ UNCHANGED <<normVars, dUrl, dEnv, walkVars, cardVars, mainVars, showVars>>

DetailNext == ResolveDetail

SpecDetail == DetailInit /\ [][DetailNext]_vars

\* C10: for a url that is absent or does not start with the site's origin,
\* scrape_more_details returns the all-None/empty detail record and leaves
\* the page handle untouched (no navigation, no other operation).
C10_ShortCircuit ==
    (/\ dPc = "done"
     /\ \/ dUrl.isNone
        \/ dUrl.parts = <<>>
        \/ dUrl.parts[1] # "https://oogoocar.com")
        => /\ dResult = [submitter |-> NoSubmitter, specification |-> {},
                         description |-> <<"No Description Found">>,
                         phone_number |-> NoneText, ad_id |-> NoneText,
                         relative_date |-> NoneArg, date_published |-> NoneValue]
           /\ dPage \in {BlankPage, ListingPage}

C10_Witness ==
    /\ dPc = "done"
    /\ dUrl = Url(<<"https://other.example", "/ar/car/1">>)
    /\ dEnv.nav = "ok"
    /\ dEnv.dom = FullDom

(***************************************************************************)
(* get_car_details, the listing walker.                                    *)
(***************************************************************************)
MaxRetries == 3
MaxCards == 3

\* a card with every element, and a card without an anchor
GoodCard(i) ==
    [id |-> i, anchor |-> TRUE, href |-> <<"/ar/car/", DigitStr[i + 1]>>,
     brand |-> "Toyota", price |-> "5000",
     title |-> [container |-> TRUE, model |-> "Camry", distance |-> NoneText]]

NoLinkCard(i) ==
    [id |-> i, anchor |-> FALSE, href |-> <<>>,
     brand |-> NoneText, price |-> "4000",
     title |-> [container |-> FALSE, model |-> NoneText, distance |-> NoneText]]

\* the listing pages with n cards; a card's id is its position in the DOM
Listings(n) ==
    {cs \in [1..n -> UNION {{GoodCard(i), NoLinkCard(i)} : i \in 1..n}] :
        \A i \in 1..n : cs[i].id = i}

\* what the driver answers while one card is processed: a card handle taken
\* from a document the page has left is detached, and every query on it raises
CardFaultSets(pg) == IF pg.at = "listing" THEN {{}, CardRules} ELSE {CardRules}

WalkerEnvs == [nav : NavOutcomes, dom : DetailDoms, faulty : {{}, {"description"}}]

Latencies == {"fast", "slow"}

\* a slip: hand over after the last attempt too
HandOverAlways(a, r) == a + 1 <= r

\* the finally clause: "if attempt + 1 < self.retries"
HandOverNeeded(a, r) == a + 1 < r

\* a slip: re-raise once the retries are used up
ExceptReraises(a, r) == IF a + 1 = r THEN "raise" ELSE "continue"

\* the except clause: "if attempt + 1 == self.retries: break"
ExceptLeaves(a, r) == IF a + 1 = r THEN "break" ELSE "continue"

\* a slip: the list rebound to the new record alone
ReplaceRecord(list, rec) == <<rec>>

\* a slip: the new record put in front
PrependRecord(list, rec) == <<rec>> \o list

\* cars.append(...)
AppendRecord(list, rec) == Append(list, rec)

\* the dict appended for one card; card, latency, path and region are not
\* keys of the dict: they tell which card it came from, how long its detail
\* resolution took, which return of scrape_more_details gave the detail
\* fields and what state the description region of the loaded page was in
CarRecord(card, faulty, link, details, lat, trace) ==
    [card |-> card.id, latency |-> lat, path |-> trace.path, region |-> trace.region,
     brand |-> scrape_brand(card, faulty),
     price |-> scrape_price(card, faulty),
     link |-> link,
     title |-> scrape_title(card, faulty),
     submitter |-> details.submitter,
     specification |-> details.specification,
     description |-> details.description,
     phone_number |-> details.phone_number,
     ad_id |-> details.ad_id,
     relative_date |-> details.relative_date,
     date_published |-> details.date_published]

WalkInit ==
    /\ variant \in Variants
    /\ relative_date = NoneArg
    /\ current_time \in Nows
    /\ normPc = "idle"
    /\ normResult = Raise
    /\ dUrl = NoneUrl
    /\ dEnv = QuietEnv
    /\ dPage = BlankPage
    /\ dPc = "idle"
    /\ dResult = EmptyDetails
    /\ retries \in 0..MaxRetries
    /\ wpc = "start"
    /\ attempt = 0
    /\ pending = "none"
    /\ page = BlankPage
    /\ car_cards = <<>>
    /\ idx = 1
    /\ cars = <<>>
    /\ wresult = <<>>
    /\ session = NoSession
    /\ newPageCalls = 0
    /\ attemptLog = <<>>
    /\ sessionFault = FALSE
    /\ CardIdle
    /\ MainIdle
    /\ ShowIdle

\* chromium.launch, browser.new_context, context.new_page, cars = []
Launch ==
    /\ wpc = "start"
    /\ \E f \in {"none", "launch_raises", "new_context_raises", "new_page_raises"} :
        /\ session' =
              [browser |-> IF f = "launch_raises" THEN "none" ELSE "open",
               context |-> IF f \in {"launch_raises", "new_context_raises"}
                             THEN "none" ELSE "open",
               openPages |-> IF f = "none" THEN 1 ELSE 0]
        /\ newPageCalls' = IF f \in {"none", "new_page_raises"} THEN 1 ELSE 0
        /\ sessionFault' = (f # "none")
        /\ wpc' = IF f # "none" THEN "raised"
                  ELSE IF retries = 0 THEN "teardown" ELSE "loading"
    /\ UNCHANGED <<normVars, detailVars, cardVars, mainVars, showVars>>
    /\ UNCHANGED <<retries, attempt, pending, page, car_cards,
                   idx, cars, wresult, attemptLog>>

\* how loading the listing can end: the calls of the try block before the
\* loop over the cards
LoadOutcomes(v) ==
    IF v = "used" THEN {"ok", "goto_raises", "wait_raises", "query_raises"}
    ELSE {"ok", "goto_raises", "scroll_raises", "dump_raises"}

\* how many cards a loaded listing can have: wait_for_selector of the used
\* walker returns once a card exists; the certified walker goes on with none
CardCounts(v, out) ==
    IF out = "dump_raises" THEN {0}
    ELSE IF v = "used" THEN 1..MaxCards
    ELSE 0..MaxCards

\* page.goto(self.url) and the wait for the cards
LoadListing ==
    /\ wpc = "loading"
    /\ \E out \in LoadOutcomes(variant) :
        /\ page' = [page EXCEPT !.at = IF out = "goto_raises" THEN @ ELSE "listing",
                                !.gotos = @ + 1]
        /\ IF out = "ok"
             THEN /\ \E n \in CardCounts(variant, out) : car_cards' \in Listings(n)
                  /\ idx' = 1
                  /\ wpc' = "cards"
                  /\ UNCHANGED <<pending, attemptLog>>
             ELSE /\ attemptLog' = Append(attemptLog, "failed")
                  /\ pending' = ExceptLeaves(attempt, retries)
                  /\ wpc' = "finally"
                  /\ UNCHANGED <<car_cards, idx>>
    /\ UNCHANGED <<normVars, detailVars, cardVars, mainVars, showVars>>
    /\ UNCHANGED <<retries, attempt, cars, wresult, session,
                   newPageCalls, sessionFault>>

\* one pass of "for card in car_cards": the four card rules, the detail
\* resolution on the walker's own page, the append, the sleep
ProcessCard ==
    /\ wpc = "cards"
    /\ idx <= Len(car_cards)
    /\ \E faulty \in CardFaultSets(page), env \in WalkerEnvs, lat \in Latencies :
        LET card == car_cards[idx]
            link == scrape_link(card, faulty)
            d == scrape_more_details(variant, link, page, env, current_time)
            trace == [path |-> d.path,
                      region |-> IF d.path = "resolved"
                                   THEN env.dom.description.state ELSE "none"]
        IN  /\ cars' = AppendRecord(cars,
                          CarRecord(card, faulty, link, d.details, lat, trace))
            /\ page' = d.page
    /\ idx' = idx + 1
    /\ UNCHANGED <<normVars, detailVars, cardVars, mainVars, showVars>>
    /\ UNCHANGED <<retries, wpc, attempt, pending, car_cards,
                   wresult, session, newPageCalls, attemptLog, sessionFault>>

\* the "break" after the loop over the cards
FinishCards ==
    /\ wpc = "cards"
    /\ idx > Len(car_cards)
    /\ attemptLog' = Append(attemptLog, "ok")
    /\ pending' = "break"
    /\ wpc' = "finally"
    /\ UNCHANGED <<normVars, detailVars, cardVars, mainVars, showVars>>
    /\ UNCHANGED <<retries, attempt, page, car_cards, idx, cars,
                   wresult, session, newPageCalls, sessionFault>>

\* a slip: the loop goes on after a successful attempt
AfterFinallyNoBreak ==
    IF pending = "raise" THEN "raised"
    ELSE IF attempt + 1 < retries THEN "loading"
    ELSE "teardown"

\* where control goes after the finally clause
AfterFinally ==
    IF pending = "raise" THEN "raised"
    ELSE IF pending = "break" THEN "teardown"
    ELSE IF attempt + 1 < retries THEN "loading"
    ELSE "teardown"

\* the finally clause: page.close() and context.new_page() when attempts remain
HandOver ==
    /\ wpc = "finally"
    /\ IF HandOverNeeded(attempt, retries)
         THEN \E f \in {"none", "close_raises", "new_page_raises"} :
                /\ page' = IF f = "none" THEN BlankPage ELSE page
                /\ newPageCalls' = IF f = "close_raises" THEN newPageCalls
                                   ELSE newPageCalls + 1
                /\ session' = [session EXCEPT !.openPages =
                                  IF f = "new_page_raises" THEN @ - 1 ELSE @]
                /\ sessionFault' = (sessionFault \/ f # "none")
                /\ wpc' = IF f # "none" THEN "raised" ELSE AfterFinally
         ELSE /\ wpc' = AfterFinally
              /\ UNCHANGED <<page, newPageCalls, session, sessionFault>>
    /\ attempt' = IF wpc' = "loading" THEN attempt + 1 ELSE attempt
    /\ pending' = "none"
    /\ UNCHANGED <<normVars, detailVars, cardVars, mainVars, showVars>>
    /\ UNCHANGED <<retries, car_cards, idx, cars, wresult,
                   attemptLog>>

\* a slip: browser.close() left out
CloseContextOnly(s, f) ==
    [s EXCEPT !.context = IF f = "context_close_raises" THEN @ ELSE "closed",
              !.openPages = IF f = "context_close_raises" THEN @ ELSE 0]

\* context.close() and browser.close(); closing the context closes its pages
CloseSession(s, f) ==
    [s EXCEPT !.context = IF f = "context_close_raises" THEN @ ELSE "closed",
              !.browser = IF f = "none" THEN "closed" ELSE @,
              !.openPages = IF f = "context_close_raises" THEN @ ELSE 0]

\* context.close(), browser.close(), return cars
Teardown ==
    /\ wpc = "teardown"
    /\ \E f \in {"none", "context_close_raises", "browser_close_raises"} :
        /\ session' = CloseSession(session, f)
        /\ sessionFault' = (sessionFault \/ f # "none")
        /\ wpc' = IF f = "none" THEN "returned" ELSE "raised"
        /\ wresult' = IF f = "none" THEN cars ELSE wresult
    /\ UNCHANGED <<normVars, detailVars, cardVars, mainVars, showVars>>
    /\ UNCHANGED <<retries, attempt, pending, page, car_cards,
                   idx, cars, newPageCalls, attemptLog>>

Next == Launch \/ LoadListing \/ ProcessCard \/ FinishCards \/ HandOver \/ Teardown

Spec == WalkInit /\ [][Next]_vars

(***************************************************************************)
(* Properties of the walker.                                               *)
(***************************************************************************)
AllFailed == \A k \in 1..Len(attemptLog) : attemptLog[k] = "failed"

\* the records are those of the cards of the last attempt, one per card, in
\* DOM order
OneRecordPerCard(list) ==
    /\ Len(list) = Len(car_cards)
    /\ \A i \in 1..Len(list) : list[i].card = car_cards[i].id

\* C1: with retries = 3, when the first two attempts to load the listing
\* throw and the third succeeds, context.new_page() is called exactly 3 times
\* (the initial call included), the walker returns one record per card of
\* the third attempt, and only a raising close call can keep it from
\* returning.
C1_RetryScenario ==
    (retries = 3 /\ attemptLog = <<"failed", "failed", "ok">>)
        => /\ newPageCalls = 3
           /\ wpc = "returned" => OneRecordPerCard(wresult)
           /\ wpc = "raised" => sessionFault

C1_Witness ==
    /\ retries = 3
    /\ attemptLog = <<"failed", "failed", "ok">>
    /\ wpc = "returned"
    /\ Len(wresult) = 3

\* C2: when every attempt to load the listing fails, the walker makes exactly
\* `retries` attempts, never more, and then returns the accumulated list
\* without raising (the failed loads themselves never make it raise).
C2_ExhaustedRetries ==
    /\ Len(attemptLog) <= retries
    /\ (wpc \in {"teardown", "returned", "raised"} /\ AllFailed /\ ~sessionFault)
          => (Len(attemptLog) = retries /\ wpc # "raised")
    /\ (wpc = "returned" /\ AllFailed) => wresult = cars

C2_Witness ==
    /\ wpc = "returned"
    /\ retries = 3
    /\ attemptLog = <<"failed", "failed", "failed">>

\* C3 (as stated): get_car_details never raises, whichever driver call fails.
C3_NeverRaises == wpc # "raised"

\* C4: the returned sequence lists the records in the DOM order of the cards,
\* whatever the latency of each card's detail resolution.
C4_RecordOrder ==
    wpc = "returned" =>
        /\ \A i, j \in 1..Len(wresult) :
              i < j => wresult[i].card < wresult[j].card
        /\ attemptLog # <<>> /\ attemptLog[Len(attemptLog)] = "ok"
              => OneRecordPerCard(wresult)

C4_Witness ==
    /\ wpc = "returned"
    /\ Len(wresult) = 3
    /\ wresult[1].latency = "slow"
    /\ wresult[2].latency = "fast"
    /\ ~wresult[1].link.isNone
    /\ ~wresult[3].link.isNone

\* the detail fields of a record
DetailFields(r) ==
    [submitter |-> r.submitter, specification |-> r.specification,
     description |-> r.description, phone_number |-> r.phone_number,
     ad_id |-> r.ad_id, relative_date |-> r.relative_date,
     date_published |-> r.date_published]

\* a pass over one card whose detail navigation raised: one page.goto more,
\* and at most the scroll after it
NavErrorStep ==
    /\ wpc = "cards"
    /\ page'.gotos = page.gotos + 1
    /\ page'.detailOps - page.detailOps \in {1, 2}

\* C11: when the navigation to a card's detail page raises, the pass over
\* that card still appends the card's record, with the card-level fields of
\* the card and exactly the detail fields of the short-circuit; the walker
\* stays in the loop over the cards of the same attempt and no attempt is
\* logged as failed.
C11_NavErrorDegrades ==
    [][NavErrorStep =>
          /\ Len(cars') = Len(cars) + 1
          /\ SubSeq(cars', 1, Len(cars)) = cars
          /\ LET r == cars'[Len(cars')]
                 card == car_cards[idx]
             IN  /\ DetailFields(r) = EmptyDetails
                 /\ r.card = card.id
                 /\ r.brand = card.brand
                 /\ r.price = card.price
                 /\ r.link = Url(<<ORIGIN>> \o card.href)
                 /\ r.title = [model |-> "Camry", distance |-> "Distance not found"]
          /\ wpc' = "cards"
          /\ idx' = idx + 1
          /\ car_cards' = car_cards
          /\ attempt' = attempt
          /\ attemptLog' = attemptLog
          /\ pending' = pending]_vars

\* a returned list whose first record went through a detail navigation error
\* and whose second record was resolved after it, in one successful attempt
C11_Witness ==
    /\ wpc = "returned"
    /\ attemptLog = <<"ok">>
    /\ Len(wresult) = 2
    /\ wresult[1].path = "nav_error"
    /\ ~wresult[1].link.isNone
    /\ wresult[1].description = NO_DESCRIPTION
    /\ wresult[2].path = "resolved"

\* C16 (as stated): a record's date_published is None only when the
\* normalizer itself failed on the record's relative_date.
C16_DateNoneOnlyOnNormalizerFailure ==
    \A i \in 1..Len(cars) :
        cars[i].date_published.isNone
            => InternalError(variant, cars[i].relative_date, current_time)

\* C17: the description of every record, accumulated or returned, is a text
\* and never None, whichever return of scrape_more_details gave it; it is the
\* sentinel when the detail page was not resolved and when the description
\* region of the resolved page was not visible.
C17_DescriptionIsText ==
    /\ \A i \in 1..Len(cars) :
          /\ cars[i].description # NoneDescription
          /\ cars[i].path # "resolved" => cars[i].description = NO_DESCRIPTION
          /\ cars[i].region # "visible" => cars[i].description = NO_DESCRIPTION
    /\ wpc = "returned" => wresult = cars

\* a returned list with a short-circuit record, a navigation-error record and
\* a record of a resolved page without a description region
C17_Witness ==
    /\ wpc = "returned"
    /\ Len(wresult) = 3
    /\ wresult[1].path = "nav_error"
    /\ wresult[2].path = "resolved" /\ wresult[2].region # "visible"
    /\ wresult[3].path = "short_circuit"

\* C19 (as stated): an attempt goes on to the cards only when the listing
\* showed at least one card.
C19_NoCardsIsFailure ==
    wpc = "cards" => car_cards # <<>>

\* C20: the accumulator only grows by appends: across every step, retries
\* included, the list before the step is a prefix of the list after it, and
\* the returned sequence is the accumulator, with every record appended in
\* any attempt.
C20_AppendOnly ==
    [][/\ Len(cars) <= Len(cars')
       /\ SubSeq(cars', 1, Len(cars)) = cars
       /\ wpc' = "returned" => wresult' = cars']_vars

\* a walk that returned, after a failed attempt and a retry, the three records
\* that the retry appended one by one
C20_Witness ==
    /\ wpc = "returned"
    /\ attemptLog = <<"failed", "ok">>
    /\ Len(wresult) = 3
    /\ wresult = cars

\* the attempts logged as failed
FailedAttempts == {k \in 1..Len(attemptLog) : attemptLog[k] = "failed"}

\* C21 (as stated): a page is closed and a fresh one opened only after a
\* failed attempt, so that the pages opened are the first one plus at most one
\* per failed attempt, and a walk whose first attempt succeeds opens one page.
C21_RecreatedOnlyOnRetry ==
    newPageCalls <= 1 + Cardinality(FailedAttempts)

C27_CardsReadOnListing ==
    (wpc = "cards" /\ idx <= Len(car_cards)) => page.at = "listing"

\* C28: an attempt fails only before its first append: every attempt starts
\* with an empty list, the list is empty when the except clause has just run
\* and when every attempt failed, at most one attempt ends with "break" after
\* its cards, and no card appears twice in the returned sequence.
C28_FailedAttemptAppendedNothing ==
    /\ wpc = "loading" => cars = <<>>
    /\ (wpc = "finally" /\ attemptLog[Len(attemptLog)] = "failed") => cars = <<>>
    /\ (wpc \in {"teardown", "returned"} /\ AllFailed) => cars = <<>>
    /\ Cardinality({k \in 1..Len(attemptLog) : attemptLog[k] = "ok"}) <= 1
    /\ wpc = "returned" =>
          \A i, j \in 1..Len(wresult) : i < j => wresult[i].card # wresult[j].card

\* the second attempt, after a failed first one, has appended two records
C28_Witness ==
    /\ wpc = "cards"
    /\ attempt = 1
    /\ attemptLog = <<"failed">>
    /\ Len(cars) = 2
    /\ cars[1].card = 1
    /\ cars[2].card = 2

\* C30 (as stated): at most one page of the context is open, and
\* context.new_page() is called at most `retries` times.
C30_OnePage_AsStated ==
    /\ session.openPages <= 1
    /\ newPageCalls <= retries

\* C30: at most one page of the context is open, and context.new_page() is
\* called at most `retries` times, or once when retries = 0.
C30_OnePage ==
    /\ session.openPages <= 1
    /\ newPageCalls <= (IF retries = 0 THEN 1 ELSE retries)

\* the third page of a walk with retries = 3 is the only one open
C30_Witness ==
    /\ retries = 3
    /\ wpc = "loading"
    /\ attempt = 2
    /\ newPageCalls = 3
    /\ session.openPages = 1

(***************************************************************************)
(* The card rules applied to one card.                                     *)
(***************************************************************************)
\* the variables of the normalizer, the resolver and the walker while none
\* of them is called
NormIdle ==
    /\ relative_date = NoneArg
    /\ current_time = NowHours
    /\ normPc = "idle"
    /\ normResult = Raise

DetailIdle ==
    /\ dUrl = NoneUrl
    /\ dEnv = QuietEnv
    /\ dPage = BlankPage
    /\ dPc = "idle"
    /\ dResult = EmptyDetails

WalkIdle ==
    /\ retries = 0
    /\ wpc = "idle"
    /\ attempt = 0
    /\ pending = "none"
    /\ page = BlankPage
    /\ car_cards = <<>>
    /\ idx = 1
    /\ cars = <<>>
    /\ wresult = <<>>
    /\ session = NoSession
    /\ newPageCalls = 0
    /\ attemptLog = <<>>
    /\ sessionFault = FALSE

CardInit ==
    /\ variant \in Variants
    /\ NormIdle
    /\ DetailIdle
    /\ WalkIdle
    /\ cardDom \in CardElements
    /\ cardFaults \in SUBSET CardRules
    /\ cardPc = "call"
    /\ cardResult = NoCardFields
    /\ MainIdle
    /\ ShowIdle

\* scrape_link, scrape_brand, scrape_price and scrape_title on one card
ExtractCard ==
    /\ cardPc = "call"
    /\ cardResult' = CardFields(cardDom, cardFaults)
    /\ cardPc' = "done"
    /\ UNCHANGED <<normVars, detailVars, walkVars, cardDom, cardFaults, mainVars, showVars>>

CardNext == ExtractCard

SpecCard == CardInit /\ [][CardNext]_vars

\* C12 (as stated): without a title container scrape_title gives None for
\* both keys; with the container and without one span it gives the text of
\* the other span and "distance not found", or "model not found".
C12_TitleCases_AsStated ==
    (cardPc = "done" /\ "title" \notin cardFaults) =>
        LET t == cardDom.title
            r == cardResult.title
        IN  /\ ~t.container => r = [model |-> NoneText, distance |-> NoneText]
            /\ (t.container /\ t.model # NoneText /\ t.distance = NoneText)
                  => r = [model |-> t.model, distance |-> "distance not found"]
            /\ (t.container /\ t.model = NoneText /\ t.distance # NoneText)
                  => r = [model |-> "model not found", distance |-> t.distance]

\* C12: without a title container scrape_title gives None for both keys;
\* with the container and without one span it gives the text of the other
\* span and the literal "Distance not found", or "Model not found"; with the
\* container neither key is ever None, so the two cases are told apart.
C12_TitleCases ==
    (cardPc = "done" /\ "title" \notin cardFaults) =>
        LET t == cardDom.title
            r == cardResult.title
        IN  /\ ~t.container => r = [model |-> NoneText, distance |-> NoneText]
            /\ (t.container /\ t.model # NoneText /\ t.distance = NoneText)
                  => r = [model |-> t.model, distance |-> "Distance not found"]
            /\ (t.container /\ t.model = NoneText /\ t.distance # NoneText)
                  => r = [model |-> "Model not found", distance |-> t.distance]
            /\ t.container => r.model # NoneText /\ r.distance # NoneText

\* scrape_title ran on a card with a title container, a model span and no
\* distance span
C12_Witness ==
    /\ cardPc = "done"
    /\ "title" \notin cardFaults
    /\ cardDom.title = [container |-> TRUE, model |-> "Camry", distance |-> NoneText]
    /\ cardResult.title = [model |-> "Camry", distance |-> "Distance not found"]

(***************************************************************************)
(* One pass of the loop over the cards: the card rules, then the detail    *)
(* resolution of the card's link.                                          *)
(***************************************************************************)
RecordInit ==
    /\ variant \in Variants
    /\ NormIdle
    /\ dUrl = NoneUrl
    /\ dEnv \in DetailEnvs
    /\ dPage = ListingPage
    /\ dPc = "call"
    /\ dResult = EmptyDetails
    /\ WalkIdle
    /\ cardDom \in {GoodCard(1), NoLinkCard(1)}
    /\ cardFaults \in SUBSET CardRules
    /\ cardPc = "call"
    /\ cardResult = NoCardFields
    /\ MainIdle
    /\ ShowIdle

\* details = await self.scrape_more_details(link, page)
ResolveCardDetail ==
    /\ cardPc = "done"
    /\ dPc = "call"
    /\ dUrl' = cardResult.link
    /\ LET r == scrape_more_details(variant, cardResult.link, dPage, dEnv, current_time) IN
        /\ dResult' = r.details
        /\ dPage' = r.page
    /\ dPc' = "done"
    /\ UNCHANGED <<normVars, dEnv, walkVars, cardVars, mainVars, showVars>>

RecordNext == ExtractCard \/ ResolveCardDetail

SpecRecord == RecordInit /\ [][RecordNext]_vars

\* the detail page of the card was loaded and its rules were called
DetailRulesRan ==
    /\ dPc = "done"
    /\ UrlAccepted(dUrl)
    /\ dEnv.nav = "ok"

\* C22 (as stated): when a single rule faults on a card that has a link to
\* the site and whose detail page can be loaded, every other rule, of the
\* card and of the detail page, gives the value it gives when nothing faults.
C22_FaultIsolation_AsStated ==
    (/\ cardPc = "done"
     /\ dPc = "done"
     /\ dEnv.nav = "ok"
     /\ UrlAccepted(scrape_link(cardDom, {}))
     /\ Cardinality(cardFaults) + Cardinality(dEnv.faulty) = 1) =>
        /\ \A r \in CardRules \ cardFaults :
              cardResult[r] = CardFields(cardDom, {})[r]
        /\ \A r \in DetailRules \ dEnv.faulty :
              dResult[r] = DetailRecord(variant, dEnv.dom, {}, current_time)[r]

\* C22: whatever rules fault on a card, each faulting card rule gives its
\* empty result and every other card rule gives the value it gives when
\* nothing faults; the same holds among the detail rules once the detail
\* page was loaded; a faulting link rule gives None, and then no detail rule
\* is called and the detail fields are those of the short-circuit.
C22_FaultIsolation ==
    /\ cardPc = "done" =>
          \A r \in CardRules :
              cardResult[r] = IF r \in cardFaults THEN NoCardFields[r]
                              ELSE CardFields(cardDom, {})[r]
    /\ DetailRulesRan =>
          \A r \in DetailRules :
              dResult[r] = IF r \in dEnv.faulty THEN EmptyDetails[r]
                           ELSE DetailRecord(variant, dEnv.dom, {}, current_time)[r]
    /\ (dPc = "done" /\ "link" \in cardFaults) =>
          /\ dResult = EmptyDetails
          /\ dPage = ListingPage

\* the brand rule faulted on the card and the phone rule on its detail page:
\* the record still has the price, the link and the ad id
C22_Witness ==
    /\ DetailRulesRan
    /\ cardFaults = {"brand"}
    /\ dEnv.faulty = {"phone_number"}
    /\ dEnv.dom = FullDom
    /\ cardResult.brand = NoneText
    /\ cardResult.price = "5000"
    /\ dResult.phone_number = NoneText
    /\ dResult.ad_id = "42"
    /\ dResult.description = <<"clean car">>

(***************************************************************************)
(* The coordinator: the main module, ScraperMain and its two tasks.        *)
(***************************************************************************)
MaxPageRecords == 2

Credentials == {"absent", "empty", "malformed", "valid"}

\* a slip: no check when the module is loaded
ImportCheckSkipped(cred) == FALSE

\* 'OGO_GCLOUD_KEY_JSON' not in os.environ
ImportCheck(cred) == cred = "absent"

\* upload_to_drive: "if not credentials_json" raises, json.loads raises
UploadRaises(cred) == cred \in {"absent", "empty", "malformed"}

\* self.yesterday: the date of datetime.now() - timedelta(days=1)
Yesterday == strftime(NowHours - timedelta(1, 0)).date

\* the date_published values a walker's record can carry
PublishedDates ==
    {NoneValue, strftime(NowHours - timedelta(1, 0)), strftime(NowHours - timedelta(3, 0))}

\* the lists get_car_details can return for page p of category c
WalkResults(c, p) ==
    UNION {{[i \in 1..n |-> [category |-> c, page |-> p, pos |-> i,
                             date_published |-> ds[i]]] :
               ds \in [1..n -> PublishedDates]} : n \in 0..MaxPageRecords}

\* filter_data: car.get("date_published", "").split()[0] raises on None;
\* what was appended before stays appended
RECURSIVE filter_data(_, _)
filter_data(cs, kept) ==
    IF cs = <<>> THEN [kept |-> kept, raised |-> FALSE]
    ELSE IF Head(cs).date_published.isNone THEN [kept |-> kept, raised |-> TRUE]
    ELSE IF Head(cs).date_published.date = Yesterday
      THEN filter_data(Tail(cs), Append(kept, Head(cs)))
    ELSE filter_data(Tail(cs), kept)

\* the next pass of "for page in range(1, 3)", or the end of the task
NextPage(t) ==
    IF t.page < LastPage THEN [pc |-> "page", page |-> t.page + 1]
    ELSE [pc |-> "finished", page |-> t.page]

\* a slip: no except clause around the walk
AfterExceptionPropagates(t) == [pc |-> "raised", page |-> t.page]

\* "except Exception as e: print(...)": the loop goes on
AfterException(t) == NextPage(t)

\* a slip: the permit given back only on a normal exit
ExitSemaphoreOnReturn(n, raised) == IF raised THEN n ELSE n + 1

\* the exit of "async with self.semaphore"
ExitSemaphore(n, raised) == n + 1

MainInit ==
    /\ variant = "used"
    /\ NormIdle
    /\ DetailIdle
    /\ WalkIdle
    /\ CardIdle
    /\ credential \in Credentials
    /\ mpc = "import"
    /\ task = [c \in Categories |-> [pc |-> "idle", page |-> FirstPage]]
    /\ permits = SemaphoreCapacity
    /\ walkLog = [c \in Categories |-> [p \in Pages |-> "none"]]
    /\ pageCars = [c \in Categories |-> <<>>]
    /\ data = [c \in Categories |-> <<>>]
    /\ files = {}
    /\ fatalAt = "none"
    /\ ShowIdle

notMain == <<normVars, detailVars, walkVars, cardVars, showVars>>

\* the module-level check, ScraperMain(), asyncio.run(scraper.run()) and the
\* start of the two tasks by asyncio.gather
ImportMain ==
    /\ mpc = "import"
    /\ IF ImportCheck(credential)
         THEN /\ mpc' = "fatal"
              /\ fatalAt' = "import"
              /\ UNCHANGED task
         ELSE /\ mpc' = "gather"
              /\ task' = [c \in Categories |-> [pc |-> "page", page |-> FirstPage]]
              /\ UNCHANGED fatalAt
    /\ UNCHANGED <<notMain, credential, permits, walkLog, pageCars, data, files>>

\* "async with self.semaphore" entered, get_car_details called
Acquire(c) ==
    /\ mpc = "gather"
    /\ task[c].pc = "page"
    /\ permits > 0
    /\ permits' = permits - 1
    /\ task' = [task EXCEPT ![c].pc = "walking"]
    /\ walkLog' = [walkLog EXCEPT ![c][task[c].page] = "walking"]
    /\ UNCHANGED <<notMain, credential, mpc, pageCars, data, files, fatalAt>>

\* get_car_details returned cs: the semaphore is left, filter_data runs
ReturnsWith(c, cs) ==
    /\ mpc = "gather"
    /\ task[c].pc = "walking"
    /\ LET f == filter_data(cs, <<>>) IN
        /\ data' = [data EXCEPT ![c] = @ \o f.kept]
        /\ walkLog' = [walkLog EXCEPT ![c][task[c].page] =
                          IF f.raised THEN "filter_raised" ELSE "returned"]
        /\ task' = [task EXCEPT ![c] =
                          IF f.raised THEN AfterException(@) ELSE NextPage(@)]
    /\ permits' = ExitSemaphore(permits, FALSE)
    /\ UNCHANGED <<notMain, credential, mpc, pageCars, files, fatalAt>>

WalkReturns(c) == \E cs \in WalkResults(c, task[c].page) : ReturnsWith(c, cs)

\* get_car_details raised: the semaphore is left, the except clause prints
WalkRaises(c) ==
    /\ mpc = "gather"
    /\ task[c].pc = "walking"
    /\ walkLog' = [walkLog EXCEPT ![c][task[c].page] = "raised"]
    /\ task' = [task EXCEPT ![c] = AfterException(@)]
    /\ permits' = ExitSemaphore(permits, TRUE)
    /\ UNCHANGED <<notMain, credential, mpc, pageCars, data, files, fatalAt>>

\* a slip: going on as soon as one of the two tasks is over
FirstCompleted == \E c \in Categories : task[c].pc \in {"finished", "raised"}

\* await asyncio.gather(self.scrape_used(), self.scrape_certified())
Gathered == \A c \in Categories : task[c].pc \in {"finished", "raised"}

\* asyncio.gather is over; save_to_excel
SaveToExcel ==
    /\ mpc = "gather"
    /\ Gathered
    /\ IF \E c \in Categories : task[c].pc = "raised"
         THEN /\ mpc' = "fatal"
              /\ fatalAt' = "gather"
              /\ UNCHANGED files
         ELSE /\ files' = {c \in Categories : data[c] # <<>>}
              /\ mpc' = IF files' # {} THEN "upload" ELSE "done"
              /\ UNCHANGED fatalAt
    /\ UNCHANGED <<notMain, credential, task, permits, walkLog, pageCars, data>>

\* upload_to_drive(files)
UploadToDrive ==
    /\ mpc = "upload"
    /\ IF UploadRaises(credential)
         THEN mpc' = "fatal" /\ fatalAt' = "upload"
         ELSE mpc' = "done" /\ UNCHANGED fatalAt
    /\ UNCHANGED <<notMain, credential, task, permits, walkLog, pageCars, data, files>>

MainNext ==
    \/ ImportMain
    \/ \E c \in Categories : Acquire(c)
    \/ \E c \in Categories : WalkReturns(c)
    \/ \E c \in Categories : WalkRaises(c)
    \/ SaveToExcel
    \/ UploadToDrive

SpecMain == MainInit /\ [][MainNext]_vars

(***************************************************************************)
(* Properties of the coordinator.                                          *)
(***************************************************************************)
\* the categories whose task is inside get_car_details
InProgress == {c \in Categories : task[c].pc = "walking"}

WalkOver == {"returned", "filter_raised", "raised"}

\* C13: at every moment the walks in progress are at most the semaphore's
\* capacity, each of them holds one permit, and a walk that is over, whether
\* it returned or raised, has given its permit back.
C13_AdmissionLimit ==
    /\ Cardinality(InProgress) <= SemaphoreCapacity
    /\ permits = SemaphoreCapacity - Cardinality(InProgress)
    /\ \A c \in Categories, p \in Pages :
          walkLog[c][p] = "walking" <=> (c \in InProgress /\ task[c].page = p)

\* one walk raised and gave its permit back while the other category's walk
\* is in progress
C13_Witness ==
    /\ walkLog["used"][FirstPage] = "raised"
    /\ task["used"].pc = "page"
    /\ task["certified"].pc = "walking"
    /\ permits = SemaphoreCapacity - 1

\* C14: without the credential variable the program stops with the
\* configuration error of the module-level check: no walker is ever called,
\* no permit is taken, nothing is saved.
C14_AbsentCredentialIsFatal ==
    credential = "absent" =>
        /\ mpc \in {"import", "fatal"}
        /\ mpc = "fatal" => fatalAt = "import"
        /\ \A c \in Categories :
              /\ task[c].pc = "idle"
              /\ data[c] = <<>>
              /\ \A p \in Pages : walkLog[c][p] = "none"
        /\ permits = SemaphoreCapacity
        /\ files = {}

C14_Witness ==
    /\ credential = "absent"
    /\ mpc = "fatal"
    /\ fatalAt = "import"

\* C15 (as stated): in a run whose credential payload is present but empty or
\* not valid JSON, no page walk is ever started.
C15_MalformedCredentialAborts ==
    credential \in {"empty", "malformed"} =>
        \A c \in Categories, p \in Pages : walkLog[c][p] = "none"

\* C18: a walk that raises, or returns nothing, or whose records make
\* filter_data raise, only ends its own pass of the page loop: the task goes
\* on to its next page, the records kept so far stay, the other task is
\* untouched, the run stops only for the credential, and when the output
\* stage is reached every page of both categories has been walked.
C18_FailedWalkNotFatal ==
    /\ [](mpc = "fatal" => fatalAt \in {"import", "upload"})
    /\ [](mpc \in {"upload", "done"} \/ fatalAt = "upload" =>
            \A c \in Categories, p \in Pages : walkLog[c][p] \in WalkOver)
    /\ [][\A c \in Categories :
            (task[c].pc = "walking" /\ task'[c].pc # "walking") =>
                /\ task'[c] = NextPage(task[c])
                /\ walkLog'[c][task[c].page] \in WalkOver
                /\ SubSeq(data'[c], 1, Len(data[c])) = data[c]
                /\ \A o \in Categories \ {c} : data'[o] = data[o] /\ task'[o] = task[o]
                /\ mpc' = "gather"]_vars

\* the output stage reached with a file to upload after the walk of the first
\* page of each category failed
C18_Witness ==
    /\ mpc = "upload"
    /\ walkLog["used"][FirstPage] = "raised"
    /\ walkLog["used"][LastPage] = "returned"
    /\ walkLog["certified"][FirstPage] = "filter_raised"
    /\ walkLog["certified"][LastPage] = "returned"
    /\ data["used"] # <<>>
    /\ data["certified"] # <<>>
    /\ files = Categories

\* C24: nothing is saved and no upload is started before every page walk of
\* both categories is over, and upload_to_drive is called only with at least
\* one file.
C24_OutputAfterAllWalks ==
    /\ (mpc \in {"upload", "done"} \/ fatalAt = "upload" \/ files # {}) =>
          /\ \A c \in Categories : task[c].pc = "finished"
          /\ \A c \in Categories, p \in Pages : walkLog[c][p] \in WalkOver
          /\ permits = SemaphoreCapacity
    /\ (mpc = "upload" \/ fatalAt = "upload") => files # {}
    /\ files = {} \/ files = {c \in Categories : data[c] # <<>>}

\* the upload was done with the one file of the used cars, after all four
\* walks
C24_Witness ==
    /\ mpc = "done"
    /\ credential = "valid"
    /\ files = {"used"}
    /\ data["certified"] = <<>>
    /\ \A c \in Categories, p \in Pages : walkLog[c][p] = "returned"

(***************************************************************************)
(* One page of one category: the list its walk returns and filter_data.    *)
(***************************************************************************)
\* what an earlier page can have left in the category's list
EarlierData(c) ==
    {<<>>, <<[category |-> c, page |-> FirstPage, pos |-> 1,
              date_published |-> strftime(NowHours - timedelta(1, 0))]>>}

FilterInit ==
    /\ variant = "used"
    /\ NormIdle
    /\ DetailIdle
    /\ WalkIdle
    /\ CardIdle
    /\ credential = "valid"
    /\ mpc = "gather"
    /\ \E c \in Categories, p \in Pages :
        /\ task = [d \in Categories |->
                     IF d = c THEN [pc |-> "walking", page |-> p]
                     ELSE [pc |-> "page", page |-> FirstPage]]
        /\ walkLog = [d \in Categories |-> [q \in Pages |->
                     IF d = c /\ q = p THEN "walking"
                     ELSE IF d = c /\ q < p THEN "returned" ELSE "none"]]
        /\ \E earlier \in (IF p = FirstPage THEN {<<>>} ELSE EarlierData(c)) :
              data = [d \in Categories |-> IF d = c THEN earlier ELSE <<>>]
        /\ \E cs \in WalkResults(c, p) :
              pageCars = [d \in Categories |-> IF d = c THEN cs ELSE <<>>]
    /\ permits = SemaphoreCapacity - 1
    /\ files = {}
    /\ fatalAt = "none"
    /\ ShowIdle

\* cars = await scraper.get_car_details(); self.filter_data(cars, ...)
ProcessPage(c) == ReturnsWith(c, pageCars[c])

FilterNext == \E c \in Categories : ProcessPage(c)

SpecFilter == FilterInit /\ [][FilterNext]_vars

\* the records of a list whose date_published has yesterday's date
PublishedYesterday(cs) ==
    SelectSeq(cs, LAMBDA r : /\ ~r.date_published.isNone
                             /\ r.date_published.date = Yesterday)

\* C26 (as stated): when the walk of a page has returned and the page is
\* processed, the category's list gains exactly the records of the page
\* published yesterday, in page order, whatever records without a
\* date_published the page has.
C26_FilterExact ==
    [][\A c \in Categories :
          (task[c].pc = "walking" /\ task'[c].pc # "walking") =>
              data'[c] = data[c] \o PublishedYesterday(pageCars[c])]_vars

(***************************************************************************)
(* The showroom walker DetailsScraping.get_car_details                     *)
(* (src/oogoo_showrooms.py).                                               *)
(***************************************************************************)
MaxShowrooms == 3
MaxShowroomCars == 2

\* the listings with n showroom cards: a card has an anchor with an href or
\* it has not; a card's id is its position in the DOM
ShowroomListings(n) ==
    {[i \in 1..n |-> [id |-> i, link |-> hasLink[i]]] : hasLink \in [1..n -> BOOLEAN]}

\* how OogooNewCarScraper.scrape_data ends on each car page of a showroom
CarPageRuns == UNION {[1..n -> {"ok", "raises"}] : n \in 0..MaxShowroomCars}

\* what the driver and the site answer during the pass over one card
ShowroomEnvs ==
    [rules : {"ok", "raises"}, details : {"ok", "fails"}, listing : {"ok", "fails"},
     cars : CarPageRuns]

\* DetailsScraping.scrape_more_details: the keys of the dict it returns
showroom_more_details(env) ==
    IF env.details = "ok" THEN {"location", "time_list", "phone_number"} ELSE {}

\* get_cars_from_showroom: the car links, [] when the showroom page fails
get_cars_from_showroom(env) ==
    IF env.listing = "ok" THEN env.cars ELSE <<>>

\* how one pass of "for card in car_cards" ends
ShowroomPass(card, env) ==
    LET details == showroom_more_details(env)
        car_links == get_cars_from_showroom(env)
    IN  IF env.rules = "raises" THEN "rule_raised"
        ELSE IF ~card.link THEN "no_link"
        ELSE IF \E k \in 1..Len(car_links) : car_links[k] = "raises" THEN "car_raised"
        ELSE IF "location" \notin details THEN "key_error"
        ELSE "appended"

\* showroom_complete_data
ShowroomRecord(card, env) ==
    [card |-> card.id, cars_count |-> Len(get_cars_from_showroom(env))]

ShowroomInit ==
    /\ variant = "used"
    /\ NormIdle
    /\ DetailIdle
    /\ WalkIdle
    /\ CardIdle
    /\ MainIdle
    /\ showPc = "start"
    /\ showCards = <<>>
    /\ showIdx = 1
    /\ showrooms_data = <<>>
    /\ showLog = <<>>

notShow == <<normVars, detailVars, walkVars, cardVars, mainVars>>

\* chromium.launch, new_page, page.goto, wait_for_selector, query_selector_all
ShowroomLoad ==
    /\ showPc = "start"
    /\ \E out \in {"ok", "launch_raises", "load_raises"} :
        IF out = "ok"
          THEN /\ \E n \in 1..MaxShowrooms : showCards' \in ShowroomListings(n)
               /\ showPc' = "cards"
          ELSE /\ showPc' = IF out = "launch_raises" THEN "raised" ELSE "closing"
               /\ UNCHANGED showCards
    /\ UNCHANGED <<notShow, showIdx, showrooms_data, showLog>>

\* one pass of "for card in car_cards"; an exception leaves the loop for the
\* except clause of get_car_details
ProcessShowroom ==
    /\ showPc = "cards"
    /\ showIdx <= Len(showCards)
    /\ \E env \in ShowroomEnvs :
        LET card == showCards[showIdx]
            out == ShowroomPass(card, env)
        IN  /\ showLog' = Append(showLog, out)
            /\ showrooms_data' = IF out = "appended"
                                    THEN Append(showrooms_data, ShowroomRecord(card, env))
                                    ELSE showrooms_data
            /\ showPc' = IF out \in {"appended", "no_link"} THEN "cards" ELSE "closing"
    /\ showIdx' = showIdx + 1
    /\ UNCHANGED <<notShow, showCards>>

\* the loop over the cards is over
ShowroomLoopEnds ==
    /\ showPc = "cards"
    /\ showIdx > Len(showCards)
    /\ showPc' = "closing"
    /\ UNCHANGED <<notShow, showCards, showIdx, showrooms_data, showLog>>

\* the finally clause, then save_to_excel and upload_to_drive
ShowroomClose ==
    /\ showPc = "closing"
    /\ \E f \in {"none", "close_raises"} :
        showPc' = IF f = "none" THEN "done" ELSE "raised"
    /\ UNCHANGED <<notShow, showCards, showIdx, showrooms_data, showLog>>

ShowroomNext == ShowroomLoad \/ ProcessShowroom \/ ShowroomLoopEnds \/ ShowroomClose

SpecShowroom == ShowroomInit /\ [][ShowroomNext]_vars

\* C29 (as stated): when a showroom's detail resolution fails or one of its
\* car pages raises, the walker still goes through every later showroom
\* card of the listing, so that at the end every card has had its pass and
\* every card whose pass ended well is in showrooms_data.
C29_ShowroomFailureIsolated ==
    (/\ showPc = "done"
     /\ \A k \in 1..Len(showLog) : showLog[k] # "rule_raised") =>
        /\ Len(showLog) = Len(showCards)
        /\ Len(showrooms_data) =
              Cardinality({k \in 1..Len(showLog) : showLog[k] = "appended"})


=============================================================================
